---- MODULE Spec2Model ----
(***************************************************************************)
(* Monte Carlo NPV simulation of an oil-exploration investment             *)
(* (src/oil.py): OilExplorationSimulation and its random source.            *)
(*                                                                         *)
(* Numbers.  Every quantity of the program is a binary floating-point      *)
(* number.  The model keeps the arithmetic of IEEE-754 (round to nearest,  *)
(* ties to even, gradual underflow) and shortens the format: a number is   *)
(* an integer count of quanta of 2^-QuantumExp, and a number is            *)
(* representable when it is m * 2^e quanta with m < 2^Precision.  With     *)
(* Precision = 53 and QuantumExp = 1074 the operators below are binary64.  *)
(* The inputs are small enough that no result overflows, and the model has *)
(* one zero: 0.0 and -0.0 are equal in every comparison the program makes. *)
(***************************************************************************)
EXTENDS Integers, Sequences, FiniteSets

\* ------------------------------------------------------------- bounds
Precision == 4
QuantumExp == 8
MaxSims == 3
MaxRuns == 2

Quantum == 2^QuantumExp

\* ---------------------------------------------------- float arithmetic
Abs(x) == IF x < 0 THEN -x ELSE x

\* nearest integer to a/d (a >= 0, d > 0), ties to the even one
RoundHalfEven(a, d) ==
    LET q == a \div d
        r == a % d
    IN  IF 2 * r < d THEN q
        ELSE IF 2 * r > d THEN q + 1
        ELSE IF q % 2 = 0 THEN q ELSE q + 1

\* least e >= 0 with a/d < 2^(Precision+e): the exponent of the result's ulp
RECURSIVE Exponent(_, _, _)
Exponent(a, d, e) ==
    IF a < (2^(Precision + e)) * d THEN e ELSE Exponent(a, d, e + 1)

\* the representable number nearest to a/d quanta (d > 0)
Round(a, d) ==
    LET m == Abs(a)
        e == Exponent(m, d, 0)
        r == (2^e) * RoundHalfEven(m, d * (2^e))
    IN  IF a < 0 THEN -r ELSE r

\* the float written as the decimal num/den
Float(num, den) == Round(num * Quantum, den)

fadd(x, y) == Round(x + y, 1)
fsub(x, y) == Round(x - y, 1)
fmul(x, y) == Round(x * y, Quantum)
fdiv(x, y) == IF y > 0 THEN Round(x * Quantum, y) ELSE Round((-x) * Quantum, -y)

\* floor of the square root of t, 0 <= t < 4^Precision
ISqrt(t) == CHOOSE m \in 0..(2^Precision) : m * m <= t /\ t < (m + 1) * (m + 1)

RECURSIVE SqrtExponent(_, _)
SqrtExponent(t, e) ==
    IF t < (2^(Precision + e)) * (2^(Precision + e)) THEN e ELSE SqrtExponent(t, e + 1)

\* the representable number nearest to sqrt(x), x >= 0
fsqrt(x) ==
    LET t == x * Quantum
        e == SqrtExponent(t, 0)
        m == ISqrt(t \div ((2^e) * (2^e)))
        mid == ((2 * m + 1) * (2^e)) * ((2 * m + 1) * (2^e))
        r == IF 4 * t < mid THEN m
             ELSE IF 4 * t > mid THEN m + 1
             ELSE IF m % 2 = 0 THEN m ELSE m + 1
    IN  r * (2^e)

\* ------------------------------------------------------------ state
VARIABLES
    params,           \* self.params: the SimulationParams record
    num_simulations,  \* self.num_simulations
    results,          \* self.results
    pc,               \* "idle", "loop", "returned", "raised"
    entry,            \* the method called: "run_simulation" or "run_analysis"
    i,                \* iterations of the loop of run_simulation completed
    npv_results,      \* the local list of run_simulation
    statistics,       \* the dict built by run_simulation (meaningful when returned)
    error,            \* the exception that ended the call, "none" otherwise
    rng,              \* numpy's global random source
    prev,             \* what the previous call returned, kept for a re-seeded call
    runs              \* calls made so far

vars == <<params, num_simulations, results, pc, entry, i, npv_results,
          statistics, error, rng, prev, runs>>

\* -------------------------------------------------------- input sets
InvestmentValues  == {Float(0, 1), Float(7, 4)}
DrillingValues    == {Float(0, 1), Float(1, 1)}
OilPriceValues    == {Float(4, 1), Float(-4, 1)}
ProbabilityValues == {Float(0, 1), Float(1, 2), Float(2, 1)}
VolumeValues      == {Float(3, 2)}
FluctuationValues == {Float(1, 2), Float(1, 1), Float(-1, 2)}
SimulationCounts  == (-1)..MaxSims

\* what np.random.random() can return: floats of [0, 1)
Uniform01 == {Float(0, 1), Float(1, 2)}
\* what the standard normal generator behind np.random.normal can return
StdNormal == {Float(-2, 1), Float(1, 1)}

SimulationParams ==
    [initial_investment : InvestmentValues,
     drilling_cost : DrillingValues,
     expected_oil_price : OilPriceValues,
     success_probability : ProbabilityValues,
     production_volume : VolumeValues,
     price_fluctuation : FluctuationValues]

NoStatistics ==
    [mean_npv |-> 0, std_npv |-> 0, min_npv |-> 0, max_npv |-> 0,
     probability_positive_npv |-> 0]

NoPrev == [valid |-> FALSE, npv_results |-> <<>>, statistics |-> NoStatistics]

\* ------------------------------------------------------ random source
\* rng.tape: the draws made since the position the generator was seeded
\* at; rng.pos: draws consumed since then; rng.drawn: draws consumed ever.
\* A generator re-seeded with the same seed repeats its tape as long as
\* the same kind of draw is asked for; past the tape, or for another kind
\* of draw, its value is any value of the distribution.
Replayed(r, kind) == r.pos < Len(r.tape) /\ r.tape[r.pos + 1].kind = kind

DrawValues(r, kind, domain) ==
    IF Replayed(r, kind) THEN {r.tape[r.pos + 1].val} ELSE domain

Advance(r, kind, v) ==
    [tape  |-> IF Replayed(r, kind) THEN r.tape
               ELSE Append(SubSeq(r.tape, 1, r.pos), [kind |-> kind, val |-> v]),
     pos   |-> r.pos + 1,
     drawn |-> r.drawn + 1]

\* ------------------------------------------------- the engine's methods
\* simulate_success with <= for <
simulate_success_Inclusive(u) == u <= params.success_probability

\* simulate_success, given the value np.random.random() returned
simulate_success(u) == u < params.success_probability

\* the standard deviation handed to np.random.normal
fluctuation == fmul(params.expected_oil_price, params.price_fluctuation)

\* np.random.normal(loc, scale) = loc + scale * z, z the standard normal draw;
\* it raises ValueError when scale < 0
simulate_oil_price(z) == fadd(params.expected_oil_price, fmul(fluctuation, z))

discount_rate == Float(1, 10)

\* calculate_npv charging the drilling cost to a dry hole as well
calculate_npv_DryHoleCost(success, oil_price) ==
    LET total_cost == fadd(params.initial_investment, params.drilling_cost)
    IN  IF ~success THEN -total_cost
        ELSE fdiv(fsub(fmul(oil_price, params.production_volume), total_cost),
                  fadd(Float(1, 1), discount_rate))

\* calculate_npv with the cash flow's subtraction the wrong way round
calculate_npv_CostMinusRevenue(success, oil_price) ==
    IF ~success THEN -params.initial_investment
    ELSE LET revenue == fmul(oil_price, params.production_volume)
             total_cost == fadd(params.initial_investment, params.drilling_cost)
             cash_flow == fsub(total_cost, revenue)
         IN  fdiv(cash_flow, fadd(Float(1, 1), discount_rate))

calculate_npv(success, oil_price) ==
    IF ~success THEN -params.initial_investment
    ELSE LET revenue == fmul(oil_price, params.production_volume)
             total_cost == fadd(params.initial_investment, params.drilling_cost)
             cash_flow == fsub(revenue, total_cost)
         IN  fdiv(cash_flow, fadd(Float(1, 1), discount_rate))

\* an assignment in place of the append
ListAssign(list, npv) == <<npv>>

\* npv_results.append(npv)
ListAppend(list, npv) == Append(list, npv)

\* the loop body drawing a price only for a successful trial
TrialOutcomes_ShortCircuit ==
    UNION { LET r1 == Advance(rng, "random", u)
            IN  IF ~simulate_success(u)
                THEN {[raised |-> FALSE, npv |-> calculate_npv(FALSE, 0), rng |-> r1]}
                ELSE IF fluctuation < 0
                THEN {[raised |-> TRUE, npv |-> 0, rng |-> r1]}
                ELSE {[raised |-> FALSE,
                       npv |-> calculate_npv(TRUE, simulate_oil_price(z)),
                       rng |-> Advance(r1, "normal", z)]
                      : z \in DrawValues(r1, "normal", StdNormal)}
          : u \in DrawValues(rng, "random", Uniform01) }

\* one execution of the loop body: the draws it makes, in order, and either
\* the NPV it computes or the exception np.random.normal raises
TrialOutcomes ==
    UNION { LET r1 == Advance(rng, "random", u)
                success == simulate_success(u)
            IN  IF fluctuation < 0
                THEN {[raised |-> TRUE, npv |-> 0, rng |-> r1]}
                ELSE {[raised |-> FALSE,
                       npv |-> calculate_npv(success, simulate_oil_price(z)),
                       rng |-> Advance(r1, "normal", z)]
                      : z \in DrawValues(r1, "normal", StdNormal)}
          : u \in DrawValues(rng, "random", Uniform01) }

\* ------------------------------------------------------- the reductions
RECURSIVE np_sum(_)
\* np.add.reduce of fewer than 8 numbers: a running sum from the left
np_sum(xs) == IF xs = <<>> THEN 0
              ELSE fadd(np_sum(SubSeq(xs, 1, Len(xs) - 1)), xs[Len(xs)])

\* the mean without its division
np_mean_Sum(xs) == np_sum(xs)

\* np.mean: np.add.reduce(xs) / len(xs)
np_mean(xs) == fdiv(np_sum(xs), Len(xs) * Quantum)

np_std(xs) ==
    LET arrmean == np_mean(xs)
        x == [k \in 1..Len(xs) |-> fsub(xs[k], arrmean)]
        sq == [k \in 1..Len(xs) |-> fmul(x[k], x[k])]
    IN  fsqrt(fdiv(np_sum(sq), Len(xs) * Quantum))

np_min(xs) == CHOOSE v \in {xs[k] : k \in 1..Len(xs)} : \A k \in 1..Len(xs) : v <= xs[k]
np_max(xs) == CHOOSE v \in {xs[k] : k \in 1..Len(xs)} : \A k \in 1..Len(xs) : v >= xs[k]

\* the test with >= for >
IsNonNegative(npv) == npv >= 0

\* the test of the list comprehension [npv > 0 for npv in npv_results]
IsPositive(npv) == npv > 0

\* np.mean of the list of booleans: True counts as 1.0, False as 0.0
probability_positive(xs) ==
    np_mean([k \in 1..Len(xs) |-> IF IsPositive(xs[k]) THEN Quantum ELSE 0])

ComputeStatistics(xs) ==
    [mean_npv |-> np_mean(xs),
     std_npv |-> np_std(xs),
     min_npv |-> np_min(xs),
     max_npv |-> np_max(xs),
     probability_positive_npv |-> probability_positive(xs)]

\* ------------------------------------------------------------ actions
Init ==
    /\ params \in SimulationParams
    /\ num_simulations \in SimulationCounts
    /\ results = <<>>
    /\ pc = "idle"
    /\ entry = "none"
    /\ i = 0
    /\ npv_results = <<>>
    /\ statistics = NoStatistics
    /\ error = "none"
    /\ rng = [tape |-> <<>>, pos |-> 0, drawn |-> 0]
    /\ prev = NoPrev
    /\ runs = 0

\* the list of the call before, kept
StaleList == npv_results

\* the list run_simulation starts from
FreshList == <<>>

\* a call of run_simulation, directly or through run_analysis.  A call at
\* the position the generator was seeded at repeats the previous call's
\* draws, and what that call returned is kept to compare; any other call
\* goes on in the stream, and the tape starts afresh at its position.
Call(method) ==
    /\ pc \in {"idle", "returned", "raised"}
    /\ runs < MaxRuns
    /\ runs' = runs + 1
    /\ entry' = method
    /\ pc' = "loop"
    /\ i' = 0
    /\ npv_results' = FreshList
    /\ statistics' = NoStatistics
    /\ error' = "none"
    /\ IF rng.pos = 0 /\ pc = "returned"
       THEN /\ prev' = [valid |-> TRUE, npv_results |-> npv_results,
                        statistics |-> statistics]
            /\ rng' = rng
       ELSE /\ prev' = NoPrev
            /\ rng' = [tape |-> <<>>, pos |-> 0, drawn |-> rng.drawn]
    /\ UNCHANGED <<params, num_simulations, results>>

run_simulation == Call("run_simulation")
run_analysis == Call("run_analysis")

\* np.random.seed with the seed used before: the stream starts over
Reseed ==
    /\ pc = "returned"
    /\ rng.pos > 0
    /\ runs < MaxRuns
    /\ rng' = [rng EXCEPT !.pos = 0]
    /\ UNCHANGED <<params, num_simulations, results, pc, entry, i, npv_results,
                   statistics, error, prev, runs>>

\* one iteration of "for _ in range(self.num_simulations)"
Trial ==
    /\ pc = "loop"
    /\ i < num_simulations
    /\ \E o \in TrialOutcomes :
         /\ ~o.raised
         /\ rng' = o.rng
         /\ npv_results' = ListAppend(npv_results, o.npv)
    /\ i' = i + 1
    /\ UNCHANGED <<params, num_simulations, results, pc, entry, statistics,
                   error, prev, runs>>

\* an iteration in which np.random.normal raises ValueError (scale < 0)
TrialRaises ==
    /\ pc = "loop"
    /\ i < num_simulations
    /\ \E o \in TrialOutcomes :
         /\ o.raised
         /\ rng' = o.rng
    /\ pc' = "raised"
    /\ error' = "ValueError"
    /\ UNCHANGED <<params, num_simulations, results, entry, i, npv_results,
                   statistics, prev, runs>>

\* the loop is over, the list is not empty: the statistics, and the return
Reduce ==
    /\ pc = "loop"
    /\ i >= num_simulations
    /\ npv_results # <<>>
    /\ statistics' = ComputeStatistics(npv_results)
    /\ pc' = "returned"
    /\ UNCHANGED <<params, num_simulations, results, entry, i, npv_results,
                   error, rng, prev, runs>>

\* the loop is over, the list is empty: np.mean and np.std give nan (with a
\* RuntimeWarning) and np.min raises ValueError
ReduceEmpty ==
    /\ pc = "loop"
    /\ i >= num_simulations
    /\ npv_results = <<>>
    /\ pc' = "raised"
    /\ error' = "ValueError"
    /\ UNCHANGED <<params, num_simulations, results, entry, i, npv_results,
                   statistics, rng, prev, runs>>

Next ==
    \/ run_simulation
    \/ run_analysis
    \/ Reseed
    \/ Trial
    \/ TrialRaises
    \/ Reduce
    \/ ReduceEmpty

Spec == Init /\ [][Next]_vars

\* ====================================================== the claims
\* The ranges the specification gives for a valid configuration.
ParamsInRange ==
    /\ 0 <= params.success_probability /\ params.success_probability <= Quantum
    /\ 0 <= params.price_fluctuation /\ params.price_fluctuation <= Quantum
    /\ params.initial_investment >= 0
    /\ params.drilling_cost >= 0
    /\ params.production_volume >= 0

\* the machine epsilon is 2^(1-Precision): x * Epsilon = x / EpsilonInverse
EpsilonInverse == 2^(Precision - 1)

Max(a, b) == IF a >= b THEN a ELSE b

\* trial k of the call under way: its two draws are entries 2k-1 and 2k of the tape
Trials == {k \in 1..Len(npv_results) : 2 * k <= Len(rng.tape)}
TrialSucceeded(k) == rng.tape[2 * k - 1].val < params.success_probability
TrialPrice(k) == simulate_oil_price(rng.tape[2 * k].val)

\* ---- C1
\* C1: for a configuration with num_simulations >= 1 and every ranged
\* parameter in range, the list holds exactly one entry per completed
\* iteration while the loop runs, and the list returned has exactly
\* num_simulations entries.  (Such a call ends in an exception in one case
\* only: expected_oil_price < 0, where np.random.normal refuses the negative
\* standard deviation; nothing is returned then.)
C1_ResultSetLength ==
    (ParamsInRange /\ num_simulations >= 1)
        => /\ pc = "loop" => Len(npv_results) = i /\ i <= num_simulations
           /\ pc = "returned" => Len(npv_results) = num_simulations
           /\ pc = "raised" => params.expected_oil_price < 0

C1_Witness ==
    /\ ParamsInRange /\ params.expected_oil_price >= 0
    /\ num_simulations = MaxSims
    /\ pc = "returned"
    /\ Len(npv_results) = MaxSims

\* ---- C2
\* C2: a call with num_simulations < 1 (the parameters in range) ends in
\* InvalidConfiguration, and in nothing else.
C2_InvalidCountRejected ==
    (num_simulations < 1 /\ ParamsInRange /\ pc = "raised")
        => error = "InvalidConfiguration"

\* ---- C3
\* C3: with a parameter out of range and num_simulations >= 1 no draw is
\* made, no NPV is computed, nothing is returned, and the exception is
\* InvalidConfiguration.
C3_InvalidParamsRejected ==
    (~ParamsInRange /\ num_simulations >= 1)
        => /\ rng.drawn = 0
           /\ npv_results = <<>>
           /\ pc # "returned"
           /\ pc = "raised" => error = "InvalidConfiguration"

\* ---- C4
\* C4: the NPV of every trial whose success draw failed is exactly
\* -initial_investment, whatever price was drawn.
C4_FailedTrialNPV ==
    \A k \in Trials :
        ~TrialSucceeded(k) => npv_results[k] = -params.initial_investment

C4_Witness ==
    /\ pc = "returned"
    /\ params.drilling_cost > 0
    /\ params.initial_investment > 0
    /\ \E k \in Trials : ~TrialSucceeded(k) /\ TrialPrice(k) > 0
    /\ \E k \in Trials : TrialSucceeded(k)

\* ---- C5
\* the NPV x is the real number
\*   (price * production_volume - (initial_investment + drilling_cost)) / 1.1
\* to within 4 Epsilon (|price * volume| + |investment| + |cost|) and two quanta
NPVFormulaHolds(x, price) ==
    LET exact == price * params.production_volume
                 - Quantum * (params.initial_investment + params.drilling_cost)
        size == Abs(price * params.production_volume)
                + Quantum * Abs(params.initial_investment)
                + Quantum * Abs(params.drilling_cost)
    IN  EpsilonInverse * Abs(11 * Quantum * x - 10 * exact)
            <= 11 * (4 * size + 2 * Quantum * EpsilonInverse)

\* C5 as stated: every successful trial's NPV is the formula's value, and
\* with the parameters in range a zero or negative price gives a negative NPV.
C5_AsStated ==
    \A k \in Trials :
        TrialSucceeded(k)
            => /\ NPVFormulaHolds(npv_results[k], TrialPrice(k))
               /\ (ParamsInRange /\ TrialPrice(k) <= 0) => npv_results[k] < 0

\* C5 amended: every successful trial's NPV is the formula's value (to
\* rounding); with the parameters in range a zero or negative price gives an
\* NPV that is not positive, and negative when
\* initial_investment + drilling_cost > 0.
C5_SuccessfulTrialNPV ==
    \A k \in Trials :
        TrialSucceeded(k)
            => /\ NPVFormulaHolds(npv_results[k], TrialPrice(k))
               /\ (ParamsInRange /\ TrialPrice(k) <= 0)
                    => /\ npv_results[k] <= 0
                       /\ params.initial_investment + params.drilling_cost > 0
                            => npv_results[k] < 0

C5_Witness ==
    /\ pc = "returned"
    /\ ParamsInRange
    /\ params.drilling_cost > 0
    /\ \E k \in Trials : TrialSucceeded(k) /\ TrialPrice(k) < 0 /\ npv_results[k] < 0
    /\ \E k \in Trials : TrialSucceeded(k) /\ TrialPrice(k) > 0 /\ npv_results[k] > 0

\* ---- C6
PositiveCount == Cardinality({k \in 1..Len(npv_results) : npv_results[k] > 0})

\* C6: in every returned call probability_positive_npv is the float nearest
\* to (entries with NPV > 0) / num_simulations, entries equal to 0 not
\* counted, and it lies in [0, 1].
C6_ProbabilityPositive ==
    (pc = "returned")
        => LET prob == statistics.probability_positive_npv
           IN  /\ 0 <= prob /\ prob <= Quantum
               /\ (2^Precision) * Abs(prob * num_simulations - PositiveCount * Quantum)
                      <= PositiveCount * Quantum

C6_Witness ==
    /\ pc = "returned"
    /\ num_simulations = 3
    /\ PositiveCount = 1
    /\ \E k \in 1..Len(npv_results) : npv_results[k] = 0
    /\ statistics.probability_positive_npv = Float(1, 3)

\* ---- C7
Entries == {npv_results[k] : k \in 1..Len(npv_results)}

\* C7 as stated: min_npv <= mean_npv <= max_npv, min_npv and max_npv entries
\* of the list (here for the configurations in range alone).
C7_AsStated ==
    (pc = "returned" /\ ParamsInRange /\ params.expected_oil_price >= 0)
        => /\ statistics.min_npv <= statistics.mean_npv
           /\ statistics.mean_npv <= statistics.max_npv
           /\ statistics.min_npv \in Entries
           /\ statistics.max_npv \in Entries

\* C7 amended: min_npv and max_npv are entries of the list, min_npv <= max_npv,
\* and mean_npv lies in [min_npv - t, max_npv + t], where t is
\* num_simulations * Epsilon * max(|min_npv|, |max_npv|) plus one quantum.
C7_MeanWithinRounding ==
    (pc = "returned")
        => LET size == Max(Abs(statistics.min_npv), Abs(statistics.max_npv))
               t == num_simulations * size + EpsilonInverse
           IN  /\ statistics.min_npv \in Entries
               /\ statistics.max_npv \in Entries
               /\ statistics.min_npv <= statistics.max_npv
               /\ EpsilonInverse * (statistics.min_npv - statistics.mean_npv) <= t
               /\ EpsilonInverse * (statistics.mean_npv - statistics.max_npv) <= t

C7_Witness ==
    /\ pc = "returned"
    /\ statistics.min_npv < statistics.max_npv
    /\ statistics.min_npv < statistics.mean_npv
    /\ statistics.mean_npv < statistics.max_npv
    /\ num_simulations = 3

C9_Determinism ==
    /\ (pc = "returned" /\ prev.valid)
          => /\ npv_results = prev.npv_results
             /\ statistics = prev.statistics
    /\ (pc = "loop")
          => /\ rng.pos = 2 * i
             /\ \A k \in 1..rng.pos :
                  rng.tape[k].kind = (IF k % 2 = 1 THEN "random" ELSE "normal")

C9_Witness ==
    /\ pc = "returned" /\ prev.valid
    /\ num_simulations = 2
    /\ rng.pos = 4
    /\ ~TrialSucceeded(1) /\ TrialSucceeded(2)
    /\ npv_results[1] # npv_results[2]
    /\ npv_results = prev.npv_results

\* ---- C10
\* C10: no step changes params, num_simulations or results; results stays
\* empty; every call starts its loop with an empty list; the count of draws
\* made never decreases; and a returned list has num_simulations entries
\* however many calls were made before.
C10_NoStateAcrossRuns ==
    /\ [](results = <<>>)
    /\ []((pc = "loop" /\ i = 0) => npv_results = <<>>)
    /\ [](pc = "returned" => Len(npv_results) = num_simulations)
    /\ [][/\ params' = params
          /\ num_simulations' = num_simulations
          /\ results' = results
          /\ rng'.drawn >= rng.drawn]_vars

C10_Witness ==
    /\ runs = 2
    /\ pc = "returned"
    /\ ~prev.valid
    /\ num_simulations = 2
    /\ rng.drawn = 8
    /\ Len(npv_results) = 2

====
